---- MODULE Spec2Model ----
(***************************************************************************)
(* Merkle-tree contract verification (contractVerification.py, app.py).    *)
(*                                                                         *)
(* Strings are sequences of integers.  A clause text is a sequence of      *)
(* body characters (1..NumAtoms), optionally preceded by the token Mark    *)
(* that stands for a leading "Clause N:" / "Section N:" label.  SHA-256 is *)
(* idealised as collision-free: hash_data prepends the tag 0 to its input, *)
(* and every digest is a word of the prefix-free language                  *)
(*     D ::= 0 a | 0 Mark a | 0 D D                                        *)
(* so that, as for fixed-width hex digests, the concatenation of two       *)
(* digests determines both of them.                                        *)
(***************************************************************************)
EXTENDS Integers, Sequences, FiniteSets

\* ---- bounds -------------------------------------------------------------
NumAtoms == 2
MaxLeaves == 5
MaxDocLen == 3

\* ---- program constants --------------------------------------------------
Mark == -1
EMPTY_CONTRACT == <<-2>>
Sides == {"left", "right", "up"}

\* ---- helpers ------------------------------------------------------------
hash_data(data) == <<0>> \o data

RangeOf(s) == {s[i] : i \in 1..Len(s)}

SeqsUpTo(S, n) == UNION {[1..k -> S] : k \in 0..n}

\* clause texts a document line can hold: plain bodies, one labelled body,
\* and one line whose text is the concatenation of two digests
Clauses ==
    {<<a>> : a \in 1..NumAtoms}
        \cup {<<Mark, 1>>}
        \cup {hash_data(<<1>>) \o hash_data(<<1>>)}

LeafDigests == {hash_data(c) : c \in Clauses}

\* ---- build_merkle_tree --------------------------------------------------
NextLevel_DropUnpaired(level) ==
    [j \in 1..(Len(level) \div 2) |->
        hash_data(level[2 * j - 1] \o level[2 * j])]

NextLevel_SwapOrder(level) ==
    [j \in 1..((Len(level) + 1) \div 2) |->
        LET left_child == level[2 * j - 1]
            right_child == IF 2 * j <= Len(level) THEN level[2 * j]
                           ELSE level[2 * j - 1]
        IN  hash_data(right_child \o left_child)]

NextLevel_LeftOnly(level) ==
    [j \in 1..((Len(level) + 1) \div 2) |->
        hash_data(level[2 * j - 1] \o level[2 * j - 1])]

NextLevel(level) ==
    [j \in 1..((Len(level) + 1) \div 2) |->
        LET left_child == level[2 * j - 1]
            right_child == IF 2 * j <= Len(level) THEN level[2 * j]
                           ELSE level[2 * j - 1]
        IN  hash_data(left_child \o right_child)]

RECURSIVE BuildLoop(_)
BuildLoop(t) ==
    IF Len(t[Len(t)]) > 1
    THEN BuildLoop(Append(t, NextLevel(t[Len(t)])))
    ELSE t

build_merkle_tree(leaf_hashes) ==
    IF leaf_hashes = <<>> THEN <<>> ELSE BuildLoop(<<leaf_hashes>>)

get_merkle_root_FirstLeaf(t) ==
    IF t # <<>> /\ t[1] # <<>> THEN t[1][1] ELSE EMPTY_CONTRACT

get_merkle_root(t) ==
    IF t # <<>> /\ t[Len(t)] # <<>> THEN t[Len(t)][1] ELSE EMPTY_CONTRACT

compare_merkle_roots(root1, root2) == root1 = root2

\* ---- get_merkle_proof ---------------------------------------------------
LeftNode(level, j) == level[2 * j - 1]

RightNode(level, j) ==
    IF 2 * j <= Len(level) THEN level[2 * j] ELSE level[2 * j - 1]

\* index of the first pair of the level that holds the digest, 0 if none
FirstPair(level, current_hash_up) ==
    LET hits == {j \in 1..((Len(level) + 1) \div 2) :
                    \/ current_hash_up = LeftNode(level, j)
                    \/ current_hash_up = RightNode(level, j)}
    IN  IF hits = {} THEN 0
        ELSE CHOOSE j \in hits : \A k \in hits : j <= k

ProofStep_WrongSide(current_hash_up, left_node, right_node) ==
    IF current_hash_up = left_node
    THEN <<right_node, "right">>
    ELSE <<left_node, "right">>

ProofStep(current_hash_up, left_node, right_node) ==
    IF current_hash_up = left_node
    THEN <<right_node, "right">>
    ELSE <<left_node, "left">>

RECURSIVE ProofWalk(_, _, _, _)
ProofWalk(t, level_index, current_hash_up, proof_acc) ==
    IF level_index > Len(t) - 1
    THEN [proof |-> proof_acc, found_in_level |-> TRUE]
    ELSE LET level == t[level_index]
             j == FirstPair(level, current_hash_up)
         IN  IF j = 0
             THEN [proof |-> proof_acc, found_in_level |-> FALSE]
             ELSE ProofWalk(t, level_index + 1,
                      hash_data(LeftNode(level, j) \o RightNode(level, j)),
                      Append(proof_acc,
                             ProofStep(current_hash_up,
                                       LeftNode(level, j),
                                       RightNode(level, j))))

\* TRUE when get_merkle_proof leaves through one of its "return []" exits
\* for a missing target (empty tree, or a level without the digest)
NotFound(t, target) ==
    \/ t = <<>>
    \/ t[1] = <<>>
    \/ ~ProofWalk(t, 1, target, <<>>).found_in_level

get_merkle_proof(t, target) ==
    IF t = <<>> \/ t[1] = <<>> THEN <<>>
    ELSE LET w == ProofWalk(t, 1, target, <<>>)
         IN  IF w.found_in_level THEN w.proof ELSE <<>>

\* ---- verify_merkle_proof ------------------------------------------------
CombineStep_SameOrder(computed_hash, sibling_hash, side) ==
    hash_data(computed_hash \o sibling_hash)

CombineStep(computed_hash, sibling_hash, side) ==
    IF side = "left"
    THEN hash_data(sibling_hash \o computed_hash)
    ELSE hash_data(computed_hash \o sibling_hash)

SideKnown_NoElse(side) == TRUE

SideKnown(side) == side = "left" \/ side = "right"

RECURSIVE VerifyLoop(_, _, _, _)
VerifyLoop(p, k, computed_hash, merkle_root) ==
    IF k > Len(p) THEN computed_hash = merkle_root
    ELSE IF ~SideKnown(p[k][2]) THEN FALSE
    ELSE VerifyLoop(p, k + 1,
                    CombineStep(computed_hash, p[k][1], p[k][2]),
                    merkle_root)

verify_merkle_proof(p, target, merkle_root) ==
    VerifyLoop(p, 1, target, merkle_root)

\* ---- inputs of the proof operations -------------------------------------
LevelDigests(t) == UNION {RangeOf(t[i]) : i \in 1..Len(t)}

Targets(t) == LevelDigests(t) \cup LeafDigests

\* the proof with the side tag of step k replaced
Retag(p, k, s) == [p EXCEPT ![k] = <<p[k][1], s>>]

OtherSide(s) == IF s = "left" THEN "right" ELSE "left"

\* what a verifier can be handed for a generated proof: the proof itself
\* or a copy with any of its side tags rewritten
Submissions(p) ==
    {[k \in 1..Len(p) |-> <<p[k][1], f[k]>>] : f \in [1..Len(p) -> Sides]}

\* ---- get_clause_comparison_report --------------------------------------
NoLabel == [prefix |-> <<>>, line |-> 0]

Line(kind, label, text) == [kind |-> kind, label |-> label, text |-> text]

clean_clause(c) == IF c # <<>> /\ c[1] = Mark THEN Tail(c) ELSE c

get_label(clause_text, line_number) ==
    IF clause_text # <<>> /\ clause_text[1] = Mark
    THEN [prefix |-> <<Mark>>, line |-> line_number]
    ELSE [prefix |-> <<>>, line |-> line_number]

Min(a, b) == IF a <= b THEN a ELSE b

Max(a, b) == IF a >= b THEN a ELSE b

IndexEntry_V1Twice(h1, h2, c1, c2, i) ==
    IF h1[i] = h2[i]
    THEN <<Line("Match", get_label(c1[i], i), <<>>)>>
    ELSE <<Line("Difference", get_label(c1[i], i), <<>>),
           Line("V1", NoLabel, clean_clause(c1[i])),
           Line("V2", NoLabel, clean_clause(c1[i]))>>

\* the lines one iteration of the index loop appends
IndexEntry(h1, h2, c1, c2, i) ==
    IF h1[i] = h2[i]
    THEN <<Line("Match", get_label(c1[i], i), <<>>)>>
    ELSE <<Line("Difference", get_label(c1[i], i), <<>>),
           Line("V1", NoLabel, clean_clause(c1[i])),
           Line("V2", NoLabel, clean_clause(c2[i]))>>

\* the lines appended for the clauses only the longer version has
AdditionalBlock(h1, h2, c1, c2) ==
    LET min_len == Min(Len(h1), Len(h2))
        max_len == Max(Len(h1), Len(h2))
    IN  IF max_len > min_len
        THEN IF Len(h1) > Len(h2)
             THEN <<Line("Additional", NoLabel, <<>>),
                    Line("V1Additional", NoLabel, <<>>)>>
                  \o [k \in 1..(max_len - min_len) |->
                        Line("Extra", get_label(c1[min_len + k], min_len + k),
                             clean_clause(c1[min_len + k]))]
             ELSE <<Line("Additional", NoLabel, <<>>),
                    Line("V2Additional", NoLabel, <<>>)>>
                  \o [k \in 1..(max_len - min_len) |->
                        Line("Extra", get_label(c2[min_len + k], min_len + k),
                             clean_clause(c2[min_len + k]))]
        ELSE <<>>

get_clause_comparison_report(h1, h2, c1, c2) ==
    LET min_len == Min(Len(h1), Len(h2))
        lines[i \in 0..min_len] ==
            IF i = 0 THEN <<Line("Header", NoLabel, <<>>)>>
            ELSE lines[i - 1] \o IndexEntry(h1, h2, c1, c2, i)
    IN  lines[min_len] \o AdditionalBlock(h1, h2, c1, c2)

HashAll(clauses) == [i \in 1..Len(clauses) |-> hash_data(clauses[i])]

\* ---- state --------------------------------------------------------------
VARIABLES pc, leaf_hashes, tree, merkle_root, target_hash, proof, submitted,
          is_valid, clauses_v1, clauses_v2, hashes_v1, hashes_v2, root_v1,
          root_v2, verdict, report

proofVars == <<leaf_hashes, tree, merkle_root, target_hash, proof,
               submitted, is_valid>>

compareVars == <<clauses_v1, clauses_v2, hashes_v1, hashes_v2, root_v1,
                 root_v2, verdict, report>>

vars == <<pc, proofVars, compareVars>>

Init ==
    /\ pc = "idle"
    /\ leaf_hashes = <<>>
    /\ tree = <<>>
    /\ merkle_root = EMPTY_CONTRACT
    /\ target_hash = <<>>
    /\ proof = <<>>
    /\ submitted = <<>>
    /\ is_valid = FALSE
    /\ clauses_v1 = <<>>
    /\ clauses_v2 = <<>>
    /\ hashes_v1 = <<>>
    /\ hashes_v2 = <<>>
    /\ root_v1 = EMPTY_CONTRACT
    /\ root_v2 = EMPTY_CONTRACT
    /\ verdict = "none"
    /\ report = <<>>

\* tree1 = build_merkle_tree(hashes1); root1 = get_merkle_root(tree1)
Build ==
    /\ pc = "idle"
    /\ \E lh \in SeqsUpTo(LeafDigests, MaxLeaves) :
        /\ leaf_hashes' = lh
        /\ tree' = build_merkle_tree(lh)
        /\ merkle_root' = get_merkle_root(tree')
    /\ pc' = "built"
    /\ UNCHANGED <<target_hash, proof, submitted, is_valid, compareVars>>

\* proof = get_merkle_proof(tree1, target_clause_hash)
GetProof ==
    /\ pc = "built"
    /\ \E t \in Targets(tree) :
        /\ target_hash' = t
        /\ proof' = get_merkle_proof(tree, t)
    /\ pc' = "proved"
    /\ UNCHANGED <<leaf_hashes, tree, merkle_root, submitted, is_valid,
                   compareVars>>

\* is_valid = verify_merkle_proof(proof, target_clause_hash, root1), on the
\* generated proof or on a copy whose side tag was replaced in transit
Verify ==
    /\ pc = "proved"
    /\ \E p \in Submissions(proof) :
        /\ submitted' = p
        /\ is_valid' = verify_merkle_proof(p, target_hash, merkle_root)
    /\ pc' = "verified"
    /\ UNCHANGED <<leaf_hashes, tree, merkle_root, target_hash, proof,
                   compareVars>>

\* "Compare Contracts" pressed with a blank contract text
CompareRejected ==
    /\ pc = "idle"
    /\ \E c1, c2 \in SeqsUpTo(Clauses, MaxDocLen) :
        /\ c1 = <<>> \/ c2 = <<>>
        /\ clauses_v1' = c1
        /\ clauses_v2' = c2
    /\ verdict' = "warning"
    /\ pc' = "compared"
    /\ UNCHANGED <<hashes_v1, hashes_v2, root_v1, root_v2, report, proofVars>>

\* "Compare Contracts" pressed with two non-blank contract texts
CompareContracts ==
    /\ pc = "idle"
    /\ \E c1, c2 \in SeqsUpTo(Clauses, MaxDocLen) \ {<<>>} :
        LET h1 == HashAll(c1)
            h2 == HashAll(c2)
            r1 == get_merkle_root(build_merkle_tree(h1))
            r2 == get_merkle_root(build_merkle_tree(h2))
        IN  /\ clauses_v1' = c1
            /\ clauses_v2' = c2
            /\ hashes_v1' = h1
            /\ hashes_v2' = h2
            /\ root_v1' = r1
            /\ root_v2' = r2
            /\ IF compare_merkle_roots(r1, r2)
               THEN /\ verdict' = "identical"
                    /\ report' = <<>>
               ELSE /\ verdict' = "different"
                    /\ report' = get_clause_comparison_report(h1, h2, c1, c2)
    /\ pc' = "compared"
    /\ UNCHANGED proofVars

Next ==
    \/ Build
    \/ GetProof
    \/ Verify
    \/ CompareRejected
    \/ CompareContracts

Spec == Init /\ [][Next]_vars

\* ---- properties ---------------------------------------------------------
IsLeaf(d) == d \in RangeOf(leaf_hashes)

HonestRun == pc = "verified" /\ submitted = proof

\* C1: the proof generated for a digest that occurs among the leaves of a
\* non-empty tree verifies against the tree's root.
C1_RoundTrip ==
    (HonestRun /\ leaf_hashes # <<>> /\ IsLeaf(target_hash)) => is_valid

\* the unpaired last leaf of a three-leaf tree, which also occurs earlier
C1_Witness ==
    /\ HonestRun
    /\ Len(leaf_hashes) = 3
    /\ target_hash = leaf_hashes[3]
    /\ target_hash = leaf_hashes[2]
    /\ Len(proof) = 2
    /\ is_valid

\* the digest being authenticated when step k of the proof is applied
RECURSIVE PathDigest(_, _, _)
PathDigest(p, target, k) ==
    IF k = 1 THEN target
    ELSE LET c == PathDigest(p, target, k - 1)
             s == p[k - 1]
         IN  IF s[2] = "left" THEN hash_data(s[1] \o c)
             ELSE hash_data(c \o s[1])

FlippedAt(k) ==
    /\ k \in 1..Len(proof)
    /\ submitted = Retag(proof, k, OtherSide(proof[k][2]))

\* C2 (as claimed): a leaf's proof with the side tag of any one step
\* flipped is rejected.
C2_AnySideFlipRejected ==
    (pc = "verified" /\ IsLeaf(target_hash)
        /\ \E k \in 1..Len(proof) : FlippedAt(k))
    => ~is_valid

\* C2 (amended): a leaf's proof with the side tag of one step flipped is
\* rejected when that step's sibling digest differs from the digest being
\* authenticated at that step.
C2_SideFlipRejectedUnlessSelfPaired ==
    \A k \in 1..Len(proof) :
        (pc = "verified" /\ IsLeaf(target_hash) /\ FlippedAt(k)
            /\ proof[k][1] # PathDigest(proof, target_hash, k))
        => ~is_valid

C2_Witness ==
    /\ pc = "verified"
    /\ IsLeaf(target_hash)
    /\ Len(proof) = 3
    /\ FlippedAt(2)
    /\ proof[2][1] # PathDigest(proof, target_hash, 2)
    /\ ~is_valid

\* C3 (as claimed): what get_merkle_proof returns for a target it does not
\* find differs from what it returns for the sole leaf of a one-leaf tree.
C3_NotFoundDistinctFromTrivial ==
    (pc = "proved" /\ NotFound(tree, target_hash))
    => \A d \in LeafDigests :
          proof # get_merkle_proof(build_merkle_tree(<<d>>), d)

CeilHalf(n) == CHOOSE m \in 0..n : 2 * m >= n /\ 2 * (m - 1) < n

\* C4: an empty input gives no levels; otherwise level 0 is the input, each
\* level is half the one below rounded up, and the only level of length 1
\* is the last one.
C4_TreeShape ==
    pc = "built" =>
        /\ leaf_hashes = <<>> => tree = <<>>
        /\ leaf_hashes # <<>> =>
            /\ Len(tree) >= 1
            /\ tree[1] = leaf_hashes
            /\ \A i \in 1..(Len(tree) - 1) :
                  Len(tree[i + 1]) = CeilHalf(Len(tree[i]))
            /\ \A i \in 1..Len(tree) :
                  (Len(tree[i]) = 1) <=> (i = Len(tree))

C4_Witness ==
    /\ pc = "built"
    /\ Len(leaf_hashes) = 5
    /\ Len(tree) = 4
    /\ Len(tree[2]) = 3

\* C5: every parent is the hash of its left child followed by its right
\* child, an unpaired last node being hashed with itself, and the level
\* the pairs are read from keeps its own length.
C5_PairingRule ==
    pc = "built" =>
        \A k \in 1..(Len(tree) - 1) :
            \A j \in 1..Len(tree[k + 1]) :
                LET L == tree[k]
                IN  /\ 2 * j - 1 <= Len(L)
                    /\ 2 * j <= Len(L) =>
                          tree[k + 1][j] = <<0>> \o L[2 * j - 1] \o L[2 * j]
                    /\ 2 * j - 1 = Len(L) =>
                          tree[k + 1][j] =
                              <<0>> \o L[2 * j - 1] \o L[2 * j - 1]

\* leaves [h1, h2, h3] with three different digests
C5_Witness ==
    /\ pc = "built"
    /\ Len(leaf_hashes) = 3
    /\ Cardinality(RangeOf(leaf_hashes)) = 3
    /\ tree[2] = <<hash_data(leaf_hashes[1] \o leaf_hashes[2]),
                   hash_data(leaf_hashes[3] \o leaf_hashes[3])>>
    /\ merkle_root = hash_data(tree[2][1] \o tree[2][2])

Compared == pc = "compared" /\ verdict \in {"identical", "different"}

\* C6: two documents of the same length whose leaf digests differ somewhere
\* have different roots.
C6_SameLengthDifferentRoots ==
    (Compared /\ Len(hashes_v1) = Len(hashes_v2) /\ hashes_v1 # hashes_v2)
    => root_v1 # root_v2

\* version 2 is version 1 with two different digests swapped
C6_Witness ==
    /\ Compared
    /\ Len(hashes_v1) = 3
    /\ Len(hashes_v2) = 3
    /\ hashes_v1[1] # hashes_v1[3]
    /\ hashes_v2 = <<hashes_v1[3], hashes_v1[2], hashes_v1[1]>>
    /\ root_v1 # root_v2

MatchAt(i) == hashes_v1[i] = hashes_v2[i]

\* position in the report of the entry for index i
RECURSIVE EntryPos(_)
EntryPos(i) ==
    IF i = 1 THEN 2
    ELSE EntryPos(i - 1) + (IF MatchAt(i - 1) THEN 1 ELSE 3)

\* C7: the report lists the indices below the shorter length in order, one
\* Match or one Difference entry (with both clause texts) each, and ends
\* with the surplus clauses of the longer side iff the lengths differ.  It
\* is read from the displayed report when the roots differ, and from a call
\* on the same inputs when the flow showed none.
C7_PositionalDiff ==
    Compared =>
        LET r == IF verdict = "different" THEN report
                 ELSE get_clause_comparison_report(hashes_v1, hashes_v2,
                                                   clauses_v1, clauses_v2)
            n == Min(Len(hashes_v1), Len(hashes_v2))
            m == Max(Len(hashes_v1), Len(hashes_v2))
            longer == IF Len(hashes_v1) > Len(hashes_v2)
                      THEN clauses_v1 ELSE clauses_v2
            tail == EntryPos(n + 1)
        IN  /\ r[1].kind = "Header"
            /\ \A i \in 1..n :
                  LET q == EntryPos(i)
                  IN  /\ r[q].label.line = i
                      /\ MatchAt(i) => r[q].kind = "Match"
                      /\ ~MatchAt(i) =>
                            /\ r[q].kind = "Difference"
                            /\ r[q + 1].kind = "V1"
                            /\ r[q + 1].text = clean_clause(clauses_v1[i])
                            /\ r[q + 2].kind = "V2"
                            /\ r[q + 2].text = clean_clause(clauses_v2[i])
            /\ m = n => Len(r) = tail - 1
            /\ m > n =>
                  /\ Len(r) = tail + 1 + (m - n)
                  /\ r[tail].kind = "Additional"
                  /\ r[tail + 1].kind =
                        (IF Len(hashes_v1) > Len(hashes_v2)
                         THEN "V1Additional" ELSE "V2Additional")
                  /\ \A k \in 1..(m - n) :
                        /\ r[tail + 1 + k].kind = "Extra"
                        /\ r[tail + 1 + k].label.line = n + k
                        /\ r[tail + 1 + k].text = clean_clause(longer[n + k])

\* version 2 is version 1 with a clause inserted in the middle: the index
\* after the insertion is a Difference and the last clause is surplus
C7_Witness ==
    /\ pc = "compared"
    /\ verdict = "different"
    /\ Len(clauses_v1) = 2
    /\ Len(clauses_v2) = 3
    /\ clauses_v2[1] = clauses_v1[1]
    /\ clauses_v2[3] = clauses_v1[2]
    /\ clauses_v2[2] # clauses_v1[2]
    /\ report[2].kind = "Match"
    /\ report[3].kind = "Difference"
    /\ report[6].kind = "Additional"
    /\ report[8].text = clean_clause(clauses_v2[3])

HasBadSide(p) == \E k \in 1..Len(p) : p[k][2] \notin {"left", "right"}

\* C8: a proof holding a step whose side is neither left nor right is
\* rejected, and verification answers True or False.
C8_BadSideRejected ==
    pc = "verified" =>
        /\ is_valid \in BOOLEAN
        /\ HasBadSide(submitted) => is_valid = FALSE

\* the bad step is the last of three, the first two are as generated
C8_Witness ==
    /\ pc = "verified"
    /\ Len(submitted) = 3
    /\ submitted[3][2] = "up"
    /\ proof[3][2] = "right"
    /\ IsLeaf(target_hash)
    /\ is_valid = FALSE

\* C9 (as claimed): the proof generated for a digest that is not among the
\* leaves of a non-empty tree does not verify against the tree's root.
C9_NonMemberRejected ==
    (HonestRun /\ leaf_hashes # <<>> /\ ~IsLeaf(target_hash)) => ~is_valid

\* C10 (as claimed): equal roots imply equal leaf-digest sequences, so the
\* flow reports as identical only documents with the same clauses.
C10_EqualRootsEqualDocuments ==
    (Compared /\ compare_merkle_roots(root_v1, root_v2))
    => (hashes_v1 = hashes_v2 /\ verdict = "identical")

\* C10 (amended): for documents with the same number of clauses, the flow
\* reports them identical only when their leaf digests agree at every
\* index.
C10_IdenticalVerdictSameLength ==
    (pc = "compared" /\ verdict = "identical"
        /\ Len(clauses_v1) = Len(clauses_v2))
    => (hashes_v1 = hashes_v2 /\ clauses_v1 = clauses_v2 /\ report = <<>>)

C10_Witness ==
    /\ pc = "compared"
    /\ verdict = "identical"
    /\ Len(clauses_v1) = 3
    /\ Len(clauses_v2) = 3
    /\ clauses_v1[1] # clauses_v1[2]

====
